---- MODULE Spec2Model ----
(***************************************************************************)
(* Retry-with-backoff and jitter (jitterbug): the backoff calculator, the  *)
(* jitter functions, and the retry loop returned by retry(fn, options).    *)
(*                                                                         *)
(* JavaScript numbers are modelled as exact rationals <<num, den>> in      *)
(* lowest terms with den > 0, so that halving and multiplying by a random  *)
(* draw are computed, not rounded.                                         *)
(***************************************************************************)
EXTENDS Integers, Sequences, FiniteSets, TLC

VARIABLES
    options,    \* the options object handed to retry(fn, options)
    live,       \* the wrapper invocations that may be made in this run
    inv,        \* per wrapper invocation: its frame (attempt, lastError, ...)
    pin,        \* arguments of a direct call of an exported pure function
    pret        \* result of that direct call

vars == <<options, live, inv, pin, pret>>

---------------------------------------------------------------------------
(* Bounds of the model *)

MaxAttemptsBound == 4      \* largest maxAttempts option explored
MaxJitterAttempts == 3     \* largest attempt budget explored with a jitterConfig given
RDen == 2                  \* the largest random draw is (RDen - 1)/RDen
NumInv == 2                \* wrapper invocations in the concurrent specification
MaxBase == 5               \* largest base delay of a direct calculateDelay call
MaxN == 5                  \* largest attempt of a direct calculateDelay call
MantBits == 3              \* significand bits of the floating-point format explored
MaxCalls == 3              \* direct calls made one after another

---------------------------------------------------------------------------
(* Number arithmetic: exact fractions <<numerator, denominator>> in lowest  *)
(* terms.  An operation binds its operands as the values x and y, so each  *)
(* is evaluated once however deep the expression that produced it.         *)

Abs(n) == IF n < 0 THEN -n ELSE n

RECURSIVE GCD(_, _)
GCD(a, b) == IF b = 0 THEN a ELSE GCD(b, a % b)

Rat(n, d) ==
    CHOOSE q \in { LET g == GCD(Abs(x), Abs(y))
                       s == IF y < 0 THEN -1 ELSE 1
                   IN  <<(s * x) \div g, (s * y) \div g>> : x \in {n}, y \in {d} } : TRUE

Num(n) == <<n, 1>>
RAdd(a, b) ==
    CHOOSE q \in {Rat(x[1] * y[2] + y[1] * x[2], x[2] * y[2]) : x \in {a}, y \in {b}} : TRUE
RSub(a, b) ==
    CHOOSE q \in {Rat(x[1] * y[2] - y[1] * x[2], x[2] * y[2]) : x \in {a}, y \in {b}} : TRUE
RMul(a, b) ==
    CHOOSE q \in {Rat(x[1] * y[1], x[2] * y[2]) : x \in {a}, y \in {b}} : TRUE
RLe(a, b) == a[1] * b[2] <= b[1] * a[2]
RMax(a, b) == IF RLe(a, b) THEN b ELSE a
RMin(a, b) == IF RLe(a, b) THEN a ELSE b

RECURSIVE Pow2Nat(_)
Pow2Nat(k) == IF k = 0 THEN 1 ELSE 2 * Pow2Nat(k - 1)

\* Math.pow(2, e) for an integer exponent e
MathPow2(e) == IF e >= 0 THEN <<Pow2Nat(e), 1>> ELSE <<1, Pow2Nat(-e)>>

\* the values Math.random() returns, in [0, 1): the smallest and the largest at
\* resolution 1/RDen
Draws == {Rat(0, RDen), Rat(RDen - 1, RDen)}

---------------------------------------------------------------------------
(* Floating-point arithmetic: a JavaScript number is a binary floating-point *)
(* value, and each operation returns the representable value nearest to the *)
(* exact result, ties to the even significand.  The format explored has      *)
(* MantBits significand bits (a double has 53) and no exponent limit.  On    *)
(* operands whose exact result is representable it agrees with the exact     *)
(* arithmetic above.                                                         *)

RLt(a, b) == ~ RLe(b, a)

\* the e with 2^e <= a < 2^(e+1), for a > 0, searching from e
RECURSIVE FlExponent(_, _)
FlExponent(a, e) ==
    IF RLe(MathPow2(e + 1), a) THEN FlExponent(a, e + 1)
    ELSE IF RLt(a, MathPow2(e)) THEN FlExponent(a, e - 1)
    ELSE e

\* round to nearest, ties to even
Fl(x) ==
    IF x[1] = 0 THEN Num(0)
    ELSE LET sgn  == IF x[1] < 0 THEN -1 ELSE 1
             a    == <<Abs(x[1]), x[2]>>
             e    == FlExponent(a, 0)
             ulp  == MathPow2(e - MantBits + 1)
             q    == RMul(a, MathPow2(MantBits - 1 - e))
             n    == q[1] \div q[2]
             rest == RSub(q, Num(n))
             m    == IF RLt(rest, <<1, 2>>) THEN n
                     ELSE IF RLt(<<1, 2>>, rest) THEN n + 1
                     ELSE IF n % 2 = 0 THEN n ELSE n + 1
         IN  RMul(Num(sgn * m), ulp)

FlAdd(a, b) == Fl(RAdd(a, b))
FlSub(a, b) == Fl(RSub(a, b))
FlMul(a, b) == Fl(RMul(a, b))

\* the values Math.random() returns in this format: the multiples of
\* 2^-MantBits in [0, 1)
FlDraws == {Rat(k, Pow2Nat(MantBits)) : k \in 0..(Pow2Nat(MantBits) - 1)}

---------------------------------------------------------------------------
(* BackoffCalculator *)

calculateDelay_expOffByOne(baseDelay, attempt, backoff) ==
    CASE backoff = "exponential" -> RMul(baseDelay, MathPow2(attempt))
      [] backoff = "linear"      -> RMul(baseDelay, Num(attempt))
      [] OTHER                   -> baseDelay

calculateDelay_linearOffByOne(baseDelay, attempt, backoff) ==
    CASE backoff = "exponential" -> RMul(baseDelay, MathPow2(attempt - 1))
      [] backoff = "linear"      -> RMul(baseDelay, Num(attempt - 1))
      [] OTHER                   -> baseDelay

calculateDelay_unknownAsExponential(baseDelay, attempt, backoff) ==
    CASE backoff = "linear" -> RMul(baseDelay, Num(attempt))
      [] backoff = "fixed"  -> baseDelay
      [] OTHER              -> RMul(baseDelay, MathPow2(attempt - 1))

calculateDelay(baseDelay, attempt, backoff) ==
    CASE backoff = "exponential" -> RMul(baseDelay, MathPow2(attempt - 1))
      [] backoff = "linear"      -> RMul(baseDelay, Num(attempt))
      [] OTHER                   -> baseDelay

---------------------------------------------------------------------------
(* JitterEngine *)

calculateFullJitter(minDelayMs, maxDelayMs, r) ==
    RAdd(RMul(r, RSub(maxDelayMs, minDelayMs)), minDelayMs)

\* Math.random() * (maxDelayMs - minDelayMs) + minDelayMs, each operation rounded
calculateFullJitterFl(minDelayMs, maxDelayMs, r) ==
    FlAdd(FlMul(r, FlSub(maxDelayMs, minDelayMs)), minDelayMs)

calculateEqualJitter_noFixedHalf(baseDelayMs, r) == RMul(r, baseDelayMs)

calculateEqualJitter(baseDelayMs, r) ==
    LET halfDelay == RMul(baseDelayMs, <<1, 2>>)
    IN  RAdd(halfDelay, RMul(r, halfDelay))

calculateFixedJitter_noClamp(maxDelayMs, jitterAmount) ==
    RSub(maxDelayMs, jitterAmount)

calculateFixedJitter(maxDelayMs, jitterAmount) ==
    RMax(Num(0), RSub(maxDelayMs, jitterAmount))

calculateRandomJitter_noClamp(baseDelayMs, jitterFraction, r) ==
    RMul(baseDelayMs, RAdd(Num(1), RMul(RSub(RMul(r, Num(2)), Num(1)), jitterFraction)))

calculateRandomJitter(baseDelayMs, jitterFraction, r) ==
    LET randomNumberBetweenJitterFraction ==
            RMul(RSub(RMul(r, Num(2)), Num(1)), jitterFraction)
    IN  RMax(Num(0), RMul(baseDelayMs, RAdd(Num(1), randomNumberBetweenJitterFraction)))

calculateDecorrelatedJitter_floorAtBase(baseDelayMs, maxDelayMs, prevDelayMs, r) ==
    LET upperDelayMs == RMax(baseDelayMs, RMul(prevDelayMs, Num(3)))
        randomValue  == RAdd(baseDelayMs, RMul(r, RSub(upperDelayMs, baseDelayMs)))
    IN  RMax(baseDelayMs, RMin(maxDelayMs, randomValue))

calculateDecorrelatedJitter_remembersPrev(baseDelayMs, maxDelayMs, prevDelayMs, r) ==
    LET kept         == IF pret # <<>> THEN pret[Len(pret)] ELSE prevDelayMs
        upperDelayMs == RMax(baseDelayMs, RMul(kept, Num(3)))
        randomValue  == RAdd(baseDelayMs, RMul(r, RSub(upperDelayMs, baseDelayMs)))
    IN  RMin(maxDelayMs, randomValue)

calculateDecorrelatedJitter_noCap(baseDelayMs, maxDelayMs, prevDelayMs, r) ==
    LET upperDelayMs == RMax(baseDelayMs, RMul(prevDelayMs, Num(3)))
    IN  RAdd(baseDelayMs, RMul(r, RSub(upperDelayMs, baseDelayMs)))

calculateDecorrelatedJitter(baseDelayMs, maxDelayMs, prevDelayMs, r) ==
    LET upperDelayMs == RMax(baseDelayMs, RMul(prevDelayMs, Num(3)))
        randomValue  == RAdd(baseDelayMs, RMul(r, RSub(upperDelayMs, baseDelayMs)))
    IN  RMin(maxDelayMs, randomValue)

\* an undefined jitterConfig
NoJitterConfig == [type |-> "undefined"]

applyJitter_noneReturnsBase(baseDelay, jitter, prevDelay, r) ==
    IF jitter.type \in {"undefined", "none"} THEN baseDelay
    ELSE CASE jitter.type = "equal" -> calculateEqualJitter(baseDelay, r)
           [] jitter.type = "full"  -> calculateFullJitter(jitter.min, jitter.max, r)
           [] jitter.type = "fixed" -> calculateFixedJitter(baseDelay, jitter.amount)
           [] jitter.type = "random" -> calculateRandomJitter(baseDelay, jitter.fraction, r)
           [] jitter.type = "decorrelated" ->
                 calculateDecorrelatedJitter(baseDelay, jitter.maxDelay, prevDelay, r)

\* if (!jitter || jitter.type === 'none') return 0; then the switch on jitter.type
applyJitter(baseDelay, jitter, prevDelay, r) ==
    IF jitter.type = "undefined" THEN Num(0)
    ELSE CASE jitter.type = "none"  -> Num(0)
           [] jitter.type = "equal" -> calculateEqualJitter(baseDelay, r)
           [] jitter.type = "full"  -> calculateFullJitter(jitter.min, jitter.max, r)
           [] jitter.type = "fixed" -> calculateFixedJitter(baseDelay, jitter.amount)
           [] jitter.type = "random" -> calculateRandomJitter(baseDelay, jitter.fraction, r)
           [] jitter.type = "decorrelated" ->
                 calculateDecorrelatedJitter(baseDelay, jitter.maxDelay, prevDelay, r)

---------------------------------------------------------------------------
(* JavaScript values thrown or returned by the wrapped function.  An object *)
(* has an identity ref: <<0, k>> for an object that exists before the call, *)
(* <<i, n>> for one allocated by wrapper invocation i at attempt n.         *)

Undefined == [kind |-> "undefined", ref |-> <<0, 0>>, message |-> "", num |-> 0]
ErrorObj(ref, message) == [kind |-> "Error", ref |-> ref, message |-> message, num |-> 0]
JsNumber(n) == [kind |-> "number", ref |-> <<0, 0>>, message |-> "", num |-> n]
JsString(s) == [kind |-> "string", ref |-> <<0, 0>>, message |-> s, num |-> 0]

Digit == <<"0", "1", "2", "3", "4", "5", "6", "7", "8", "9">>

RECURSIVE DecimalString(_)
DecimalString(n) ==
    IF n < 10 THEN Digit[n + 1]
    ELSE DecimalString(n \div 10) \o Digit[(n % 10) + 1]

\* String(v)
String(v) ==
    CASE v.kind = "string"    -> v.message
      [] v.kind = "number"    -> IF v.num < 0 THEN "-" \o DecimalString(-v.num)
                                 ELSE DecimalString(v.num)
      [] v.kind = "undefined" -> "undefined"
      [] v.kind = "Error"     -> IF v.message = "" THEN "Error" ELSE "Error: " \o v.message

\* what fn may throw or reject with
Thrown == {ErrorObj(<<0, 1>>, "fail 1"), JsNumber(42)}

\* what fn may resolve with
Returned == {JsString("success")}

\* the exception of a throwing observer
ObserverError == ErrorObj(<<0, 9>>, "observer failed")

\* the argument lists the wrapper is called with
ArgLists == {<<"arg1", "arg2", "arg3">>}

---------------------------------------------------------------------------
(* RetryConfig: the options object and its destructuring with defaults *)

DefaultMaxAttempts == 3
DefaultDelay == 1000

OptionFields == {"maxAttempts", "delay", "backoff", "jitterConfig", "onRetry"}

JitterValues ==
    { [type |-> "none"],
      [type |-> "equal"],
      [type |-> "full", min |-> Num(100), max |-> Num(1000)],
      [type |-> "full", min |-> Num(500), max |-> Num(100)],
      [type |-> "full", min |-> Num(-10), max |-> Num(100)],
      [type |-> "fixed", amount |-> Num(50)],
      [type |-> "fixed", amount |-> Num(-50)],
      [type |-> "random", fraction |-> <<1, 2>>],
      [type |-> "decorrelated", maxDelay |-> Num(5000)],
      [type |-> "decorrelated", maxDelay |-> Num(150)] }

FullOptions ==
    [ maxAttempts  : -1..MaxAttemptsBound,
      delay        : {Num(0), Num(100)},
      backoff      : {"exponential", "linear", "fixed", "unknown"},
      jitterConfig : JitterValues,
      onRetry      : {"observer", "thrower"} ]

\* an options object with only the fields of g given
Restrict(f, g) == [k \in g |-> f[k]]

\* the attempt budget an options object asks for
Budget(o) == IF "maxAttempts" \in DOMAIN o THEN o.maxAttempts ELSE DefaultMaxAttempts

OptionsSpace ==
    { o \in {Restrict(f, g) : f \in FullOptions, g \in SUBSET OptionFields} :
        "jitterConfig" \in DOMAIN o => Budget(o) <= MaxJitterAttempts }

maxAttempts ==
    IF "maxAttempts" \in DOMAIN options THEN options.maxAttempts ELSE DefaultMaxAttempts

delay ==
    IF "delay" \in DOMAIN options THEN options.delay ELSE Num(DefaultDelay)

backoff_defaultLinear ==
    IF "backoff" \in DOMAIN options THEN options.backoff ELSE "linear"

backoff ==
    IF "backoff" \in DOMAIN options THEN options.backoff ELSE "exponential"

jitterConfig ==
    IF "jitterConfig" \in DOMAIN options THEN options.jitterConfig ELSE NoJitterConfig

\* the default observer () => {} returns; a given observer may be one that throws
onRetryMayThrow ==
    "onRetry" \in DOMAIN options /\ options.onRetry = "thrower"

---------------------------------------------------------------------------
(* AttemptState: the frame of one wrapper invocation, and the events it has *)
(* produced so far (trace).                                                 *)

Ev(ev, n, val, ms, args) == [ev |-> ev, n |-> n, val |-> val, ms |-> ms, args |-> args]

EvCall(n, args)      == Ev("call", n, Undefined, Num(0), args)     \* fn(...args) invoked
EvOk(n, v)           == Ev("ok", n, v, Num(0), <<>>)               \* fn resolved with v
EvFail(n, e)         == Ev("fail", n, e, Num(0), <<>>)             \* fn threw or rejected e
EvOnRetry(n, e, ms)  == Ev("onRetry", n, e, ms, <<>>)              \* onRetry(e, n, ms)
EvSleep(n, ms)       == Ev("sleep", n, Undefined, ms, <<>>)        \* setTimeout(resolve, ms)
EvWake(n)            == Ev("wake", n, Undefined, Num(0), <<>>)     \* the timer fired

IdleFrame ==
    [ pc              |-> "idle",
      args            |-> <<>>,
      attempt         |-> 0,
      lastError       |-> Undefined,
      prevJitterDelay |-> Num(0),
      timer           |-> Num(0),
      outcome         |-> Undefined,
      observerThrew   |-> FALSE,
      trace           |-> <<>> ]

EntryFrame_initialError(args) ==
    [IdleFrame EXCEPT !.args = args, !.attempt = 1, !.prevJitterDelay = Num(0),
                      !.lastError = ErrorObj(<<0, 8>>, "retry failed")]

EntryFrame_hoistedLocals(args) ==
    IF \E j \in DOMAIN inv : inv[j].pc # "idle"
    THEN LET j == CHOOSE j \in DOMAIN inv : inv[j].pc # "idle"
         IN  [IdleFrame EXCEPT !.args = args, !.attempt = 1,
                               !.lastError = inv[j].lastError,
                               !.prevJitterDelay = inv[j].prevJitterDelay]
    ELSE [IdleFrame EXCEPT !.args = args, !.attempt = 1, !.prevJitterDelay = Num(0)]

EntryFrame_seededWithDelay(args) ==
    [IdleFrame EXCEPT !.args = args, !.attempt = 1, !.prevJitterDelay = delay]

\* the frame on entry of the async function: lastError unset, prevJitterDelay = 0,
\* attempt = 1
EntryFrame(args) ==
    [IdleFrame EXCEPT !.args = args, !.attempt = 1, !.prevJitterDelay = Num(0)]

LoopCond_offByOne(attempt) == attempt <= maxAttempts + 1

LoopCond_strict(attempt) == attempt < maxAttempts

\* for (...; attempt <= maxAttempts; ...)
LoopCond(attempt) == attempt <= maxAttempts

ShouldRetry_inclusive(attempt) == attempt <= maxAttempts

ShouldRetry_always(attempt) == TRUE

\* if (attempt < maxAttempts)
ShouldRetry(attempt) == attempt < maxAttempts

Coerce_legacy(error, fresh) == error

\* error instanceof Error ? error : new Error(String(error))
Coerce(error, fresh) ==
    IF error.kind = "Error" THEN error ELSE ErrorObj(fresh, String(error))

DelayTime_jitterOnly(waitTime, jitterMs) == jitterMs

\* const delayTimeMs = waitTime + jitterMs
DelayTime(waitTime, jitterMs) == RAdd(waitTime, jitterMs)

NextPrevJitter_total(waitTime, jitterMs) == RAdd(waitTime, jitterMs)

\* prevJitterDelay = jitterMs
NextPrevJitter(waitTime, jitterMs) == jitterMs

CaptureError_keepFirst(lastError, error, fresh) ==
    IF lastError.kind = "undefined" THEN Coerce(error, fresh) ELSE lastError

\* lastError = <the coerced error>: overwritten at each failed attempt
CaptureError(lastError, error, fresh) == Coerce(error, fresh)

ForwardedArgs_none(args) == <<>>

\* fn(...args): the rest parameter of the wrapper spread into the call
ForwardedArgs(args) == args

RECURSIVE LoopHead(_, _)
RECURSIVE Catch(_, _, _)

OnSuccess_noReturn(f, v, i) ==
    LoopHead([f EXCEPT !.attempt = @ + 1, !.trace = Append(@, EvOk(f.attempt, v))], i)

\* return await fn(...args), fn's promise fulfilled with v: the wrapper resolves
OnSuccess(f, v, i) ==
    {[f EXCEPT !.pc = "resolved", !.outcome = v, !.trace = Append(@, EvOk(f.attempt, v))]}

Sleep_noAwait(f, ms, i) ==
    LoopHead([f EXCEPT !.attempt = @ + 1, !.timer = ms,
                       !.trace = Append(@, EvSleep(f.attempt, ms))], i)

Sleep_neverResolves(f, ms, i) ==
    {[f EXCEPT !.pc = "lost", !.timer = ms, !.trace = Append(@, EvSleep(f.attempt, ms))]}

\* await sleep(ms): the timer is armed and the invocation suspends until it fires
Sleep(f, ms, i) ==
    {[f EXCEPT !.pc = "sleeping", !.timer = ms, !.trace = Append(@, EvSleep(f.attempt, ms))]}

OnObserverThrow_caught(f, ms, i) == Sleep(f, ms, i)

\* onRetry(lastError, attempt, delayTimeMs) throws inside the catch block: nothing
\* encloses it, so the async function rejects with the observer's exception
OnObserverThrow(f, ms, i) ==
    {[f EXCEPT !.pc = "rejected", !.outcome = ObserverError]}

\* fn(...args) throws e before returning a promise: the call is inside the try
\* block, so the catch block runs
OnSyncThrow(f, e, i) == Catch(f, e, i)

OnReject_noAwait(f, e, i) ==
    {[f EXCEPT !.pc = "rejected", !.outcome = e, !.trace = Append(@, EvFail(f.attempt, e))]}

\* the promise fn returned rejects with e: it is awaited inside the try block
\* (return await fn(...args)), so the rejection is thrown there and the same
\* catch block runs
OnReject(f, e, i) == Catch(f, e, i)

\* The frames in which the invocation next suspends or settles, from the loop
\* condition on: fn is called, and either returns a pending promise or throws.
LoopHead(f, i) ==
    IF LoopCond(f.attempt)
    THEN LET g == [f EXCEPT !.trace = Append(@, EvCall(f.attempt, ForwardedArgs(f.args)))]
         IN  {[g EXCEPT !.pc = "awaitFn"]}
               \cup UNION {OnSyncThrow(g, e, i) : e \in Thrown}
    ELSE {[f EXCEPT !.pc = "rejected", !.outcome = f.lastError]}

\* The catch block for the value e thrown at attempt f.attempt, up to the next
\* suspension: the sleep, the observer's exception, or the next loop iteration.
Catch(f, e, i) ==
    LET n   == f.attempt
        err == CaptureError(f.lastError, e, <<i, n>>)
        f1  == [f EXCEPT !.lastError = err, !.trace = Append(@, EvFail(n, e))]
    IN  IF ShouldRetry(n)
        THEN UNION {
               LET waitTime    == calculateDelay(delay, n, backoff)
                   jitterMs    == applyJitter(waitTime, jitterConfig, f1.prevJitterDelay, r)
                   delayTimeMs == DelayTime(waitTime, jitterMs)
                   f2 == [f1 EXCEPT !.prevJitterDelay = NextPrevJitter(waitTime, jitterMs),
                                    !.trace = Append(@, EvOnRetry(n, err, delayTimeMs))]
               IN  Sleep(f2, delayTimeMs, i)
                     \cup (IF onRetryMayThrow
                           THEN OnObserverThrow([f2 EXCEPT !.observerThrew = TRUE],
                                                delayTimeMs, i)
                           ELSE {})
               : r \in Draws }
        ELSE LoopHead([f1 EXCEPT !.attempt = n + 1], i)

---------------------------------------------------------------------------
(* The retry loop *)

Invs == 1..NumInv

\* the wrapper is called: everything up to its first suspension
Invoke(i) ==
    /\ i \in live
    /\ inv[i].pc = "idle"
    /\ \E a \in ArgLists : \E g \in LoopHead(EntryFrame(a), i) :
          inv' = [inv EXCEPT ![i] = g]
    /\ UNCHANGED <<options, live, pin, pret>>

\* the promise returned by fn fulfils: return await fn(...args)
FnResolve(i) ==
    /\ inv[i].pc = "awaitFn"
    /\ \E v \in Returned : \E g \in OnSuccess(inv[i], v, i) :
          inv' = [inv EXCEPT ![i] = g]
    /\ UNCHANGED <<options, live, pin, pret>>

FnReject_timesOut(i) ==
    /\ inv[i].pc = "awaitFn"
    /\ \E g \in LoopHead([inv[i] EXCEPT !.attempt = @ + 1], i) :
          inv' = [inv EXCEPT ![i] = g]
    /\ UNCHANGED <<options, live, pin, pret>>

\* the promise returned by fn rejects: the catch block runs
FnReject(i) ==
    /\ inv[i].pc = "awaitFn"
    /\ \E e \in Thrown : \E g \in OnReject(inv[i], e, i) :
          inv' = [inv EXCEPT ![i] = g]
    /\ UNCHANGED <<options, live, pin, pret>>

TimerFire_skipsIndex(i) ==
    /\ inv[i].pc = "sleeping"
    /\ LET f == [inv[i] EXCEPT !.attempt = @ + 2,
                               !.trace = Append(@, EvWake(inv[i].attempt))]
       IN  \E g \in LoopHead(f, i) : inv' = [inv EXCEPT ![i] = g]
    /\ UNCHANGED <<options, live, pin, pret>>

TimerFire_consumesBudget(i) ==
    /\ inv[i].pc = "sleeping"
    /\ LET f == [inv[i] EXCEPT !.attempt = @ + 1,
                               !.trace = Append(@, EvWake(inv[i].attempt))]
       IN  \E g \in LoopHead(f, i) : inv' = [inv EXCEPT ![i] = g]
    /\ options' = [k \in DOMAIN options |->
                      IF k = "maxAttempts" THEN options[k] - 1 ELSE options[k]]
    /\ UNCHANGED <<live, pin, pret>>

\* the timer armed by sleep fires: attempt++ and the loop goes on
TimerFire(i) ==
    /\ inv[i].pc = "sleeping"
    /\ LET f == [inv[i] EXCEPT !.attempt = @ + 1,
                               !.trace = Append(@, EvWake(inv[i].attempt))]
       IN  \E g \in LoopHead(f, i) : inv' = [inv EXCEPT ![i] = g]
    /\ UNCHANGED <<options, live, pin, pret>>

NoCall == [fn |-> "none"]
NoRet == <<>>

Init ==
    /\ options \in OptionsSpace
    /\ live = {1}
    /\ inv = [i \in Invs |-> IdleFrame]
    /\ pin = NoCall
    /\ pret = NoRet

Next ==
    \E i \in Invs : Invoke(i) \/ FnResolve(i) \/ FnReject(i) \/ TimerFire(i)

Spec == Init /\ [][Next]_vars

---------------------------------------------------------------------------
(* Direct calls of the exported pure functions *)

BackoffValues == {"exponential", "linear", "fixed", "unknown", "quadratic"}

CalculateDelayInputs ==
    { [fn |-> "calculateDelay", baseDelay |-> Rat(k, 2), attempt |-> n, backoff |-> s] :
        k \in 0..(2 * MaxBase), n \in 1..MaxN, s \in BackoffValues }

CallCalculateDelay ==
    /\ pin.fn = "calculateDelay"
    /\ pret = NoRet
    /\ pret' = <<calculateDelay(pin.baseDelay, pin.attempt, pin.backoff)>>
    /\ UNCHANGED <<options, live, inv, pin>>

\* jitter configurations the type JitterConfig admits and the documented
\* contract of applyJitter does not
InvalidJitterValues ==
    { [type |-> "full", min |-> Num(500), max |-> Num(100)],
      [type |-> "full", min |-> Num(100), max |-> Num(100)],
      [type |-> "full", min |-> Num(-10), max |-> Num(100)],
      [type |-> "full", min |-> Num(10), max |-> Num(-100)],
      [type |-> "fixed", amount |-> Num(-50)],
      [type |-> "random", fraction |-> <<-1, 2>>],
      [type |-> "random", fraction |-> <<3, 2>>],
      [type |-> "decorrelated", maxDelay |-> Num(-1000)],
      [type |-> "decorrelated", maxDelay |-> Num(500)] }

BoundaryJitterValues ==
    { [type |-> "random", fraction |-> Num(0)],
      [type |-> "random", fraction |-> Num(1)],
      [type |-> "decorrelated", maxDelay |-> Num(100)] }

\* Math.random() in a direct call
DrawsAll == {Rat(k, RDen) : k \in 0..(RDen - 1)}

ApplyJitterInputs ==
    { [fn |-> "applyJitter", baseDelay |-> Num(b), jitter |-> j, prevDelay |-> Num(q)] :
        b \in {-100, 0, 100, 1000},
        j \in JitterValues \cup {NoJitterConfig} \cup InvalidJitterValues
                \cup BoundaryJitterValues,
        q \in {-50, 0, 200} }

CallApplyJitter ==
    /\ pin.fn = "applyJitter"
    /\ pret = NoRet
    /\ \E r \in DrawsAll :
          pret' = <<applyJitter(pin.baseDelay, pin.jitter, pin.prevDelay, r)>>
    /\ UNCHANGED <<options, live, inv, pin>>

\* Math.random() replaced by a mock returning r, as the tests of the jitter
\* functions do: 0 and 1 included
MockDraws == {Rat(k, RDen) : k \in 0..RDen}

EqualJitterInputs ==
    { [fn |-> "calculateEqualJitter", baseDelayMs |-> Rat(k, 2), r |-> r] :
        k \in 0..(2 * MaxBase), r \in MockDraws }

FullJitterInputs ==
    { [fn |-> "calculateFullJitter", minDelayMs |-> Num(lo), maxDelayMs |-> Num(hi), r |-> r] :
        lo \in -1..MaxBase, hi \in -1..MaxBase, r \in MockDraws }

FixedJitterInputs ==
    { [fn |-> "calculateFixedJitter", maxDelayMs |-> Num(b), jitterAmount |-> Num(a)] :
        b \in -2..MaxBase, a \in -2..(MaxBase + 1) }

RandomJitterInputs ==
    { [fn |-> "calculateRandomJitter", baseDelayMs |-> Num(b), jitterFraction |-> Rat(k, 2),
       r |-> r] :
        b \in 0..MaxBase, k \in -3..4, r \in MockDraws }

DecorrelatedJitterInputs ==
    { [fn |-> "calculateDecorrelatedJitter", baseDelayMs |-> Num(b), maxDelayMs |-> Num(m),
       prevDelayMs |-> Num(q), r |-> r] :
        b \in 0..MaxBase, m \in 0..(2 * MaxBase), q \in 0..MaxBase, r \in MockDraws }

CallEqualJitter ==
    /\ pin.fn = "calculateEqualJitter"
    /\ pret = NoRet
    /\ pret' = <<calculateEqualJitter(pin.baseDelayMs, pin.r)>>
    /\ UNCHANGED <<options, live, inv, pin>>

CallFullJitter ==
    /\ pin.fn = "calculateFullJitter"
    /\ pret = NoRet
    /\ pret' = <<calculateFullJitter(pin.minDelayMs, pin.maxDelayMs, pin.r)>>
    /\ UNCHANGED <<options, live, inv, pin>>

CallFixedJitter ==
    /\ pin.fn = "calculateFixedJitter"
    /\ pret = NoRet
    /\ pret' = <<calculateFixedJitter(pin.maxDelayMs, pin.jitterAmount)>>
    /\ UNCHANGED <<options, live, inv, pin>>

CallRandomJitter ==
    /\ pin.fn = "calculateRandomJitter"
    /\ pret = NoRet
    /\ pret' = <<calculateRandomJitter(pin.baseDelayMs, pin.jitterFraction, pin.r)>>
    /\ UNCHANGED <<options, live, inv, pin>>

CallDecorrelatedJitter ==
    /\ pin.fn = "calculateDecorrelatedJitter"
    /\ pret = NoRet
    /\ pret' = <<calculateDecorrelatedJitter(pin.baseDelayMs, pin.maxDelayMs,
                                             pin.prevDelayMs, pin.r)>>
    /\ UNCHANGED <<options, live, inv, pin>>

InitPure ==
    /\ options = Restrict(CHOOSE f \in FullOptions : TRUE, {})
    /\ live = {}
    /\ inv = [i \in Invs |-> IdleFrame]
    /\ pin \in CalculateDelayInputs \cup ApplyJitterInputs \cup EqualJitterInputs
                \cup FullJitterInputs \cup FixedJitterInputs \cup RandomJitterInputs
                \cup DecorrelatedJitterInputs
    /\ pret = NoRet

NextPure ==
    \/ CallCalculateDelay
    \/ CallApplyJitter
    \/ CallEqualJitter
    \/ CallFullJitter
    \/ CallFixedJitter
    \/ CallRandomJitter
    \/ CallDecorrelatedJitter

SpecPure == InitPure /\ [][NextPure]_vars

---------------------------------------------------------------------------
(* Direct calls made one after another by one caller: pin holds the calls   *)
(* made so far, each with the value Math.random() returned in it, and pret  *)
(* the value each call returned.                                            *)

RepeatInputs ==
    { [fn |-> "calculateDelay", baseDelay |-> Num(100), attempt |-> 3, backoff |-> "exponential"],
      [fn |-> "calculateDelay", baseDelay |-> Num(100), attempt |-> 2, backoff |-> "linear"],
      [fn |-> "calculateEqualJitter", baseDelayMs |-> Num(100), r |-> Num(0)],
      [fn |-> "calculateEqualJitter", baseDelayMs |-> Num(100), r |-> <<1, 2>>],
      [fn |-> "calculateFullJitter", minDelayMs |-> Num(100), maxDelayMs |-> Num(1000),
       r |-> <<1, 2>>],
      [fn |-> "calculateFixedJitter", maxDelayMs |-> Num(100), jitterAmount |-> Num(30)],
      [fn |-> "calculateRandomJitter", baseDelayMs |-> Num(100), jitterFraction |-> <<1, 2>>,
       r |-> Num(0)],
      [fn |-> "calculateDecorrelatedJitter", baseDelayMs |-> Num(100),
       maxDelayMs |-> Num(5000), prevDelayMs |-> Num(0), r |-> <<1, 2>>],
      [fn |-> "calculateDecorrelatedJitter", baseDelayMs |-> Num(100),
       maxDelayMs |-> Num(5000), prevDelayMs |-> Num(200), r |-> <<1, 2>>] }

\* the call c is made and returns v
Returns(c, v) ==
    /\ Len(pin) < MaxCalls
    /\ pin' = Append(pin, c)
    /\ pret' = Append(pret, v)
    /\ UNCHANGED <<options, live, inv>>

AgainCalculateDelay ==
    \E c \in RepeatInputs :
        /\ c.fn = "calculateDelay"
        /\ Returns(c, calculateDelay(c.baseDelay, c.attempt, c.backoff))

AgainEqualJitter ==
    \E c \in RepeatInputs :
        /\ c.fn = "calculateEqualJitter"
        /\ Returns(c, calculateEqualJitter(c.baseDelayMs, c.r))

AgainFullJitter ==
    \E c \in RepeatInputs :
        /\ c.fn = "calculateFullJitter"
        /\ Returns(c, calculateFullJitter(c.minDelayMs, c.maxDelayMs, c.r))

AgainFixedJitter ==
    \E c \in RepeatInputs :
        /\ c.fn = "calculateFixedJitter"
        /\ Returns(c, calculateFixedJitter(c.maxDelayMs, c.jitterAmount))

AgainRandomJitter ==
    \E c \in RepeatInputs :
        /\ c.fn = "calculateRandomJitter"
        /\ Returns(c, calculateRandomJitter(c.baseDelayMs, c.jitterFraction, c.r))

AgainDecorrelatedJitter ==
    \E c \in RepeatInputs :
        /\ c.fn = "calculateDecorrelatedJitter"
        /\ Returns(c, calculateDecorrelatedJitter(c.baseDelayMs, c.maxDelayMs,
                                                  c.prevDelayMs, c.r))

InitRepeat ==
    /\ options = Restrict(CHOOSE f \in FullOptions : TRUE, {})
    /\ live = {}
    /\ inv = [i \in Invs |-> IdleFrame]
    /\ pin = <<>>
    /\ pret = <<>>

NextRepeat ==
    \/ AgainCalculateDelay
    \/ AgainEqualJitter
    \/ AgainFullJitter
    \/ AgainFixedJitter
    \/ AgainRandomJitter
    \/ AgainDecorrelatedJitter

SpecRepeat == InitRepeat /\ [][NextRepeat]_vars

\* What the host guarantees and what a finite-time operation provides: a timer
\* armed by setTimeout fires, and the promise returned by fn settles.
TimersElapse == \A i \in Invs : WF_vars(TimerFire(i))
OperationsSettle == \A i \in Invs : WF_vars(FnResolve(i) \/ FnReject(i))

\* the configurations the wrapper is followed to its end with: every jitter
\* variant, an observer that returns and one that throws, budgets 0 and up
FairOptions ==
    [ maxAttempts  : 0..MaxJitterAttempts,
      delay        : {Num(100)},
      backoff      : {"exponential"},
      jitterConfig : JitterValues,
      onRetry      : {"observer", "thrower"} ]

InitFair ==
    /\ options \in FairOptions
    /\ live = {1}
    /\ inv = [i \in Invs |-> IdleFrame]
    /\ pin = NoCall
    /\ pret = NoRet

SpecFair == InitFair /\ [][Next]_vars /\ TimersElapse /\ OperationsSettle

\* one wrapper called NumInv times before any of the calls has settled
ConcurrentOptions ==
    { [maxAttempts |-> m, delay |-> Num(100),
       jitterConfig |-> [type |-> "decorrelated", maxDelay |-> Num(5000)]] : m \in 0..3 }

InitConcurrent ==
    /\ options \in ConcurrentOptions
    /\ live = Invs
    /\ inv = [i \in Invs |-> IdleFrame]
    /\ pin = NoCall
    /\ pret = NoRet

SpecConcurrent == InitConcurrent /\ [][Next]_vars

\* direct calls of calculateFullJitter in floating-point arithmetic, with
\* representable arguments
FullJitterFlInputs ==
    { [fn |-> "calculateFullJitter", minDelayMs |-> Num(lo), maxDelayMs |-> Num(hi), r |-> r] :
        lo \in 0..MaxBase, hi \in 0..MaxBase, r \in FlDraws }

CallFullJitterFl ==
    /\ pin.fn = "calculateFullJitter"
    /\ pret = NoRet
    /\ pret' = <<calculateFullJitterFl(pin.minDelayMs, pin.maxDelayMs, pin.r)>>
    /\ UNCHANGED <<options, live, inv, pin>>

InitFloat ==
    /\ options = Restrict(CHOOSE f \in FullOptions : TRUE, {})
    /\ live = {}
    /\ inv = [i \in Invs |-> IdleFrame]
    /\ pin \in FullJitterFlInputs
    /\ pret = NoRet

NextFloat == CallFullJitterFl

SpecFloat == InitFloat /\ [][NextFloat]_vars

\* the library as a whole: a program either wraps a function and calls the
\* wrapper, or calls the exported functions directly
InitAll == Init \/ InitPure

NextAll == Next \/ NextPure

SpecAll == InitAll /\ [][NextAll]_vars

---------------------------------------------------------------------------
(* The legacy retry (part_000), run beside the retry of src/src/retry.ts.   *)
(* Invocation 1 is a call of the wrapper retry.ts makes, invocation 2 a call *)
(* of the wrapper the legacy retry makes from the same fn and options; pin   *)
(* is what fn does at its 1st, 2nd, ... invocation.                          *)

LegacyCalculateDelay_linearFromZero(baseDelay, attempt, strategy) ==
    CASE strategy = "exponential" -> RMul(baseDelay, MathPow2(attempt - 1))
      [] strategy = "linear"      -> RMul(baseDelay, Num(attempt - 1))
      [] OTHER                    -> baseDelay

\* part_000, calculateDelay
LegacyCalculateDelay(baseDelay, attempt, strategy) ==
    CASE strategy = "exponential" -> RMul(baseDelay, MathPow2(attempt - 1))
      [] strategy = "linear"      -> RMul(baseDelay, Num(attempt))
      [] OTHER                    -> baseDelay

\* part_000: const { maxAttempts = 3, delay = 1000, backoff = 'exponential',
\* onRetry = () => {} } = options; a jitterConfig in options is not read
LegacyMaxAttempts ==
    IF "maxAttempts" \in DOMAIN options THEN options.maxAttempts ELSE 3

LegacyDelay ==
    IF "delay" \in DOMAIN options THEN options.delay ELSE Num(1000)

LegacyBackoff ==
    IF "backoff" \in DOMAIN options THEN options.backoff ELSE "exponential"

\* part_000: let lastError; attempt = 1
LegacyEntryFrame(args) == [IdleFrame EXCEPT !.args = args, !.attempt = 1]

RECURSIVE LegacyLoopHead(_, _)
RECURSIVE LegacyCatch(_, _, _)

\* part_000: for (let attempt = 1; attempt <= maxAttempts; attempt++) { try {
\* return await fn(...args) ... } } throw lastError
LegacyLoopHead(f, i) ==
    IF f.attempt <= LegacyMaxAttempts
    THEN LET g == [f EXCEPT !.trace = Append(@, EvCall(f.attempt, f.args))]
         IN  {[g EXCEPT !.pc = "awaitFn"]}
               \cup UNION {LegacyCatch(g, e, i) : e \in Thrown}
    ELSE {[f EXCEPT !.pc = "rejected", !.outcome = f.lastError]}

\* part_000, the catch block: lastError = error; if (attempt < maxAttempts) {
\* waitTime = calculateDelay(...); onRetry(error, attempt, waitTime);
\* await sleep(waitTime) }
LegacyCatch(f, e, i) ==
    LET n  == f.attempt
        f1 == [f EXCEPT !.lastError = e, !.trace = Append(@, EvFail(n, e))]
    IN  IF n < LegacyMaxAttempts
        THEN LET waitTime == LegacyCalculateDelay(LegacyDelay, n, LegacyBackoff)
                 f2 == [f1 EXCEPT !.trace = Append(@, EvOnRetry(n, e, waitTime))]
             IN  {[f2 EXCEPT !.pc = "sleeping", !.timer = waitTime,
                             !.trace = Append(@, EvSleep(n, waitTime))]}
                   \cup (IF onRetryMayThrow
                         THEN {[f2 EXCEPT !.observerThrew = TRUE, !.pc = "rejected",
                                          !.outcome = ObserverError]}
                         ELSE {})
        ELSE LegacyLoopHead([f1 EXCEPT !.attempt = n + 1], i)

\* what fn does at one invocation
FnOutcomes ==
    {[res |-> "ok", val |-> v] : v \in Returned}
        \cup {[res |-> "fail", val |-> e] : e \in Thrown}

\* the frame g records of fn only what the pattern pin prescribes
FollowsPattern(g) ==
    \A p \in 1..Len(g.trace) :
        g.trace[p].ev \in {"ok", "fail"} =>
            /\ g.trace[p].n \in DOMAIN pin
            /\ pin[g.trace[p].n] = [res |-> g.trace[p].ev, val |-> g.trace[p].val]

\* a step of the wrapper of retry.ts, fn behaving as pin says
NewRetryStep ==
    /\ Invoke(1) \/ FnResolve(1) \/ FnReject(1) \/ TimerFire(1)
    /\ FollowsPattern(inv'[1])

LegacyInvoke ==
    /\ inv[2].pc = "idle"
    /\ \E a \in ArgLists : \E g \in LegacyLoopHead(LegacyEntryFrame(a), 2) :
          FollowsPattern(g) /\ inv' = [inv EXCEPT ![2] = g]
    /\ UNCHANGED <<options, live, pin, pret>>

\* part_000: return await fn(...args), fn's promise fulfilled
LegacyFnResolve ==
    /\ inv[2].pc = "awaitFn"
    /\ \E v \in Returned :
          LET g == [inv[2] EXCEPT !.pc = "resolved", !.outcome = v,
                                  !.trace = Append(@, EvOk(inv[2].attempt, v))]
          IN  FollowsPattern(g) /\ inv' = [inv EXCEPT ![2] = g]
    /\ UNCHANGED <<options, live, pin, pret>>

LegacyFnReject ==
    /\ inv[2].pc = "awaitFn"
    /\ \E e \in Thrown : \E g \in LegacyCatch(inv[2], e, 2) :
          FollowsPattern(g) /\ inv' = [inv EXCEPT ![2] = g]
    /\ UNCHANGED <<options, live, pin, pret>>

LegacyTimerFire ==
    /\ inv[2].pc = "sleeping"
    /\ LET f == [inv[2] EXCEPT !.attempt = @ + 1,
                               !.trace = Append(@, EvWake(inv[2].attempt))]
       IN  \E g \in LegacyLoopHead(f, 2) :
              FollowsPattern(g) /\ inv' = [inv EXCEPT ![2] = g]
    /\ UNCHANGED <<options, live, pin, pret>>

\* the options both wrappers are made with: all omitted, some omitted, and some
\* with a jitterConfig, which only retry.ts reads
LegacyOptions ==
    { o \in { Restrict(f, g) :
                f \in [ maxAttempts  : 0..MaxAttemptsBound,
                        delay        : {Num(100)},
                        backoff      : {"exponential", "linear"},
                        jitterConfig : {[type |-> "fixed", amount |-> Num(50)]},
                        onRetry      : {"observer"} ],
                g \in { {}, {"maxAttempts", "onRetry"}, {"maxAttempts", "delay", "backoff"},
                        {"maxAttempts", "delay", "backoff", "jitterConfig"} } } :
        "jitterConfig" \in DOMAIN o => Budget(o) <= MaxJitterAttempts }

InitLegacy ==
    /\ options \in LegacyOptions
    /\ live = {1}
    /\ inv = [i \in Invs |-> IdleFrame]
    /\ pin \in [1..Budget(options) -> FnOutcomes]
    /\ pret = NoRet

NextLegacy ==
    \/ NewRetryStep
    \/ LegacyInvoke
    \/ LegacyFnResolve
    \/ LegacyFnReject
    \/ LegacyTimerFire

SpecLegacy == InitLegacy /\ [][NextLegacy]_vars

---------------------------------------------------------------------------
(* Reading a frame's trace *)

Tr(i) == inv[i].trace
LastEv(i) == Tr(i)[Len(Tr(i))]
EvsOf(i, kind) == SelectSeq(Tr(i), LAMBDA e : e.ev = kind)
NumEv(i, kind) == Len(EvsOf(i, kind))
Started(i) == inv[i].pc # "idle"

\* the observer threw: the invocation rejected right after an onRetry call
ObserverThrew(i) ==
    /\ inv[i].pc = "rejected"
    /\ Len(Tr(i)) > 0
    /\ LastEv(i).ev = "onRetry"

---------------------------------------------------------------------------
(* Properties of the retry loop *)

\* C1: in one wrapper invocation with maxAttempts >= 1, fn is invoked at least
\* once and at most maxAttempts times, whatever fn does.
C1_CallsWithinBudget ==
    \A i \in Invs :
        (Started(i) /\ maxAttempts >= 1) =>
            (NumEv(i, "call") >= 1 /\ NumEv(i, "call") <= maxAttempts)

C1_Witness ==
    \E i \in Invs :
        /\ inv[i].pc = "rejected"
        /\ maxAttempts >= 2
        /\ NumEv(i, "call") = maxAttempts

\* C2: when fn fails k <= maxAttempts-1 times and then succeeds, the wrapper has
\* invoked fn exactly k+1 times and resolves with the value of that success; it
\* never rejects on fewer than maxAttempts failures (the observer not throwing).
C2_SucceedsAfterTransientErrors ==
    \A i \in Invs :
        LET k == NumEv(i, "fail")
        IN  /\ NumEv(i, "ok") > 0 =>
                  /\ inv[i].pc = "resolved"
                  /\ NumEv(i, "ok") = 1
                  /\ LastEv(i).ev = "ok"
                  /\ LastEv(i).n = k + 1
                  /\ NumEv(i, "call") = k + 1
                  /\ k <= maxAttempts - 1
                  /\ inv[i].outcome = LastEv(i).val
            /\ (inv[i].pc = "rejected" /\ ~ObserverThrew(i) /\ maxAttempts >= 1) =>
                  k >= maxAttempts
            /\ inv[i].pc = "resolved" => NumEv(i, "ok") = 1

C2_Witness ==
    \E i \in Invs :
        /\ inv[i].pc = "resolved"
        /\ NumEv(i, "fail") = 2
        /\ NumEv(i, "call") = 3
        /\ maxAttempts = 3
        /\ jitterConfig.type = "equal"
        /\ inv[i].outcome = JsString("success")

\* C3: when fn fails on every invocation and maxAttempts = N >= 1 (the observer
\* not throwing), fn is invoked exactly N times, onRetry exactly N-1 times and
\* never for the N-th failure, and the wrapper rejects at the N-th failure.
C3_ExhaustionCounts ==
    \A i \in Invs :
        (maxAttempts >= 1 /\ ~ObserverThrew(i)) =>
            /\ inv[i].pc = "rejected" =>
                  /\ NumEv(i, "call") = maxAttempts
                  /\ NumEv(i, "fail") = maxAttempts
                  /\ NumEv(i, "ok") = 0
                  /\ NumEv(i, "onRetry") = maxAttempts - 1
                  /\ \A p \in 1..Len(Tr(i)) :
                        Tr(i)[p].ev = "onRetry" => Tr(i)[p].n < maxAttempts
            /\ NumEv(i, "fail") = maxAttempts => inv[i].pc = "rejected"

C3_Witness ==
    \E i \in Invs :
        /\ inv[i].pc = "rejected"
        /\ maxAttempts = 3
        /\ NumEv(i, "fail") = 3
        /\ NumEv(i, "onRetry") = 2

\* C4: once an invocation of fn succeeds the wrapper resolves at once: nothing
\* (no fn call, no onRetry, no wait) follows the success, and neither onRetry
\* nor a wait exists for the successful attempt.
C4_NothingAfterSuccess ==
    \A i \in Invs : \A p \in 1..Len(Tr(i)) :
        Tr(i)[p].ev = "ok" =>
            /\ p = Len(Tr(i))
            /\ inv[i].pc = "resolved"
            /\ \A q \in 1..Len(Tr(i)) :
                  Tr(i)[q].ev \in {"onRetry", "sleep", "wake"} => Tr(i)[q].n < Tr(i)[p].n

C4_Witness ==
    \E i \in Invs :
        /\ inv[i].pc = "resolved"
        /\ NumEv(i, "fail") = 1
        /\ NumEv(i, "onRetry") = 1
        /\ inv[i].attempt < maxAttempts

\* C5: on exhaustion the wrapper rejects with the error captured from the
\* maxAttempts-th invocation of fn; lastError is at every moment the error
\* captured from the most recent failed attempt.
C5_LastErrorSurfaced ==
    \A i \in Invs :
        /\ (inv[i].pc = "rejected" /\ ~ObserverThrew(i) /\ maxAttempts >= 1) =>
              /\ LastEv(i).ev = "fail"
              /\ LastEv(i).n = maxAttempts
              /\ inv[i].outcome = Coerce(LastEv(i).val, <<i, maxAttempts>>)
        /\ \A p \in 1..Len(Tr(i)) :
              (Tr(i)[p].ev = "fail" /\ \A q \in (p + 1)..Len(Tr(i)) : Tr(i)[q].ev # "fail") =>
                  inv[i].lastError = Coerce(Tr(i)[p].val, <<i, Tr(i)[p].n>>)

C5_Witness ==
    \E i \in Invs :
        /\ inv[i].pc = "rejected"
        /\ maxAttempts = 2
        /\ NumEv(i, "fail") = 2
        /\ EvsOf(i, "fail")[1].val = JsNumber(42)
        /\ EvsOf(i, "fail")[2].val = ErrorObj(<<0, 1>>, "fail 1")
        /\ inv[i].outcome = ErrorObj(<<0, 1>>, "fail 1")

\* how the wrapper must present a value raw thrown by fn
C6_Presents(x, raw) ==
    IF raw.kind = "Error"
    THEN x = raw
    ELSE /\ x.kind = "Error"
         /\ x.ref[1] # 0
         /\ x.message = String(raw)
         /\ raw = JsNumber(42) => x.message = "42"

\* C6: an Error thrown by fn reaches onRetry and the final rejection as the same
\* object; a non-Error value v reaches both as a new Error with message String(v).
C6_ErrorNormalisation ==
    \A i \in Invs : \A p \in 1..Len(Tr(i)) :
        Tr(i)[p].ev = "fail" =>
            /\ (p < Len(Tr(i)) /\ Tr(i)[p + 1].ev = "onRetry") =>
                  C6_Presents(Tr(i)[p + 1].val, Tr(i)[p].val)
            /\ (p = Len(Tr(i)) /\ inv[i].pc = "rejected") =>
                  C6_Presents(inv[i].outcome, Tr(i)[p].val)

C6_Witness ==
    \E i \in Invs :
        /\ inv[i].pc = "rejected"
        /\ maxAttempts = 2
        /\ NumEv(i, "fail") = 2
        /\ EvsOf(i, "fail")[1].val = ErrorObj(<<0, 1>>, "fail 1")
        /\ EvsOf(i, "onRetry")[1].val = ErrorObj(<<0, 1>>, "fail 1")
        /\ EvsOf(i, "fail")[2].val = JsNumber(42)
        /\ inv[i].outcome = ErrorObj(<<i, 2>>, "42")

\* C7: around every retry the events come in the order fail n, onRetry n, the
\* wait for n starts, the wait elapses, fn attempt n+1; onRetry and the start of
\* the wait follow the failure in the same step, and attempt n+1 is not invoked
\* before the wait after attempt n has elapsed.
C7_RetryEventOrder ==
    \A i \in Invs : \A p \in 1..Len(Tr(i)) :
        LET e == Tr(i)[p]
        IN  /\ (e.ev = "call" /\ e.n >= 2) =>
                  /\ p >= 6
                  /\ Tr(i)[p - 1] = EvWake(e.n - 1)
                  /\ Tr(i)[p - 2].ev = "sleep"   /\ Tr(i)[p - 2].n = e.n - 1
                  /\ Tr(i)[p - 3].ev = "onRetry" /\ Tr(i)[p - 3].n = e.n - 1
                  /\ Tr(i)[p - 4].ev = "fail"    /\ Tr(i)[p - 4].n = e.n - 1
                  /\ Tr(i)[p - 5].ev = "call"    /\ Tr(i)[p - 5].n = e.n - 1
            /\ (e.ev = "fail" /\ e.n < maxAttempts) =>
                  /\ p < Len(Tr(i))
                  /\ Tr(i)[p + 1].ev = "onRetry" /\ Tr(i)[p + 1].n = e.n
                  /\ ~ObserverThrew(i) =>
                        /\ p + 1 < Len(Tr(i))
                        /\ Tr(i)[p + 2].ev = "sleep" /\ Tr(i)[p + 2].n = e.n
            /\ (e.ev = "sleep" /\ p = Len(Tr(i))) =>
                  inv[i].pc = "sleeping" /\ inv[i].attempt = e.n
            /\ (e.ev = "wake") => (p < Len(Tr(i)) /\ Tr(i)[p + 1] = EvCall(e.n + 1, inv[i].args))

C7_Witness ==
    \E i \in Invs :
        /\ Len(Tr(i)) >= 6
        /\ Tr(i)[1].ev = "call"    /\ Tr(i)[1].n = 1
        /\ Tr(i)[2].ev = "fail"    /\ Tr(i)[2].n = 1
        /\ Tr(i)[3].ev = "onRetry" /\ Tr(i)[3].n = 1
        /\ Tr(i)[4].ev = "sleep"   /\ Tr(i)[4].n = 1
        /\ Tr(i)[5].ev = "wake"    /\ Tr(i)[5].n = 1
        /\ Tr(i)[6].ev = "call"    /\ Tr(i)[6].n = 2

\* the onRetry event of attempt n in a trace that has it
C8_OnRetryOf(i, n) == EvsOf(i, "onRetry")[n]

\* the jitter returned at the retry before attempt n's (0 before the first)
C8_PrevJitter(i, n) ==
    IF n = 1 THEN Num(0)
    ELSE RSub(C8_OnRetryOf(i, n - 1).ms, calculateDelay(delay, n - 1, backoff))

\* C8: for every failed attempt n < maxAttempts onRetry receives the error
\* captured from attempt n, the index n and total = calculateDelay(delay, n,
\* backoff) + applyJitter(that base wait, jitterConfig, prevJitterDelay), and the
\* wait that follows is armed with that same total.
C8_OnRetryArguments ==
    \A i \in Invs : \A p \in 1..Len(Tr(i)) :
        Tr(i)[p].ev = "onRetry" =>
            LET n == Tr(i)[p].n
                w == calculateDelay(delay, n, backoff)
            IN  /\ p > 1
                /\ Tr(i)[p - 1].ev = "fail"
                /\ Tr(i)[p - 1].n = n
                /\ n = Len(SelectSeq(SubSeq(Tr(i), 1, p), LAMBDA e : e.ev = "fail"))
                /\ n = Len(SelectSeq(SubSeq(Tr(i), 1, p), LAMBDA e : e.ev = "onRetry"))
                /\ n < maxAttempts
                /\ Tr(i)[p].val = Coerce(Tr(i)[p - 1].val, <<i, n>>)
                /\ \E r \in Draws :
                      Tr(i)[p].ms = RAdd(w, applyJitter(w, jitterConfig, C8_PrevJitter(i, n), r))
                /\ p < Len(Tr(i)) =>
                      /\ Tr(i)[p + 1].ev = "sleep"
                      /\ Tr(i)[p + 1].ms = Tr(i)[p].ms
                /\ (p + 1 = Len(Tr(i)) /\ inv[i].pc = "sleeping") =>
                      inv[i].timer = Tr(i)[p].ms

\* delay 100, exponential, equal jitter, draws 1/2 then 0: 100 + 75, then 200 + 100
C8_Witness ==
    \E i \in Invs :
        /\ NumEv(i, "sleep") = 2
        /\ jitterConfig.type = "equal"
        /\ EvsOf(i, "onRetry")[1].ms = Num(175)
        /\ EvsOf(i, "sleep")[1].ms = Num(175)
        /\ EvsOf(i, "onRetry")[2].ms = Num(300)
        /\ EvsOf(i, "sleep")[2].ms = Num(300)
        /\ inv[i].pc = "sleeping"
        /\ inv[i].timer = Num(300)

\* x doubled k times, by repeated addition
RECURSIVE Doubled(_, _)
Doubled(x, k) == IF k = 0 THEN x ELSE Doubled(RAdd(x, x), k - 1)

\* C9: with options omitted the wrapper behaves as maxAttempts = 3, delay = 1000,
\* backoff = exponential, no jitter and an observer that never throws; when
\* backoff is not given (and no jitter is), the wait reported to onRetry at
\* failed attempt n is delay * 2^(n-1).
C9_Defaults ==
    \A i \in Invs :
        /\ "maxAttempts" \notin DOMAIN options =>
              /\ NumEv(i, "call") <= 3
              /\ (inv[i].pc = "rejected" /\ ~ObserverThrew(i)) => NumEv(i, "call") = 3
        /\ "onRetry" \notin DOMAIN options => ~ObserverThrew(i)
        /\ ("delay" \notin DOMAIN options /\ "jitterConfig" \notin DOMAIN options
              /\ "backoff" \in DOMAIN options /\ options.backoff = "fixed") =>
              \A p \in 1..Len(Tr(i)) : Tr(i)[p].ev = "onRetry" => Tr(i)[p].ms = Num(1000)
        /\ ("backoff" \notin DOMAIN options /\ "jitterConfig" \notin DOMAIN options) =>
              \A p \in 1..Len(Tr(i)) :
                  Tr(i)[p].ev = "onRetry" =>
                      Tr(i)[p].ms =
                          Doubled(IF "delay" \in DOMAIN options THEN options.delay
                                     ELSE Num(1000), Tr(i)[p].n - 1)
        /\ DOMAIN options = {} =>
              \A p \in 1..Len(Tr(i)) :
                  Tr(i)[p].ev \in {"onRetry", "sleep"} =>
                      \/ Tr(i)[p].n = 1 /\ Tr(i)[p].ms = Num(1000)
                      \/ Tr(i)[p].n = 2 /\ Tr(i)[p].ms = Num(2000)

\* only maxAttempts given (4) and delay (100): the waits are 100, 200, 400
C9_Witness ==
    \E i \in Invs :
        /\ DOMAIN options = {"maxAttempts", "delay"}
        /\ NumEv(i, "onRetry") = 3
        /\ EvsOf(i, "onRetry")[1].ms = Num(100)
        /\ EvsOf(i, "onRetry")[2].ms = Num(200)
        /\ EvsOf(i, "onRetry")[3].ms = Num(400)

\* with no option at all: three calls, waits 1000 and 2000, then the rejection
C9_WitnessOmitted ==
    \E i \in Invs :
        /\ DOMAIN options = {}
        /\ inv[i].pc = "rejected"
        /\ NumEv(i, "call") = 3
        /\ NumEv(i, "onRetry") = 2
        /\ EvsOf(i, "onRetry")[2].ms = Num(2000)

\* C14: every invocation of fn made by one wrapper invocation, the first and
\* every retry alike, receives exactly the argument list the wrapper was called
\* with, unchanged and in the same order.
C14_ArgumentsForwarded ==
    \A i \in Invs :
        Started(i) =>
            /\ inv[i].args \in ArgLists
            /\ \A p \in 1..Len(Tr(i)) :
                  Tr(i)[p].ev = "call" => Tr(i)[p].args = inv[i].args

C14_Witness ==
    \E i \in Invs :
        /\ NumEv(i, "call") = 3
        /\ inv[i].args = <<"arg1", "arg2", "arg3">>
        /\ EvsOf(i, "call")[1].args = <<"arg1", "arg2", "arg3">>
        /\ EvsOf(i, "call")[3].args = <<"arg1", "arg2", "arg3">>

\* C16: if onRetry throws when called for failed attempt n, the wrapper rejects
\* with the observer's exception, no wait is armed for attempt n, and fn is
\* invoked no more than the n times already made (the invocation has ended).
C16_ObserverExceptionPropagates ==
    \A i \in Invs :
        inv[i].observerThrew =>
            /\ inv[i].pc = "rejected"
            /\ inv[i].outcome = ObserverError
            /\ LastEv(i).ev = "onRetry"
            /\ LastEv(i).n = inv[i].attempt
            /\ \A p \in 1..Len(Tr(i)) :
                  Tr(i)[p].ev = "sleep" => Tr(i)[p].n < inv[i].attempt
            /\ NumEv(i, "call") = inv[i].attempt
            /\ NumEv(i, "sleep") = inv[i].attempt - 1
            /\ ~ ENABLED (Invoke(i) \/ FnResolve(i) \/ FnReject(i) \/ TimerFire(i))

\* the observer returns at attempt 1 and throws at attempt 2: two calls of fn,
\* one wait, and the wrapper rejected with the observer's exception
C16_Witness ==
    \E i \in Invs :
        /\ inv[i].observerThrew
        /\ inv[i].attempt = 2
        /\ maxAttempts >= 3
        /\ inv[i].pc = "rejected"
        /\ inv[i].outcome = ObserverError
        /\ NumEv(i, "call") = 2
        /\ NumEv(i, "sleep") = 1

\* C17: with a jitter configuration whose range is empty or reversed, such as
\* {type: 'full', min: 500, max: 100}, and a retry left, the wrapper aborts at
\* the first failed attempt: it rejects with a configuration error that is not
\* the operation's error, onRetry is never invoked, no wait is armed and fn is
\* invoked exactly once.
C17_InvalidConfigAborts ==
    \A i \in Invs :
        ( /\ jitterConfig.type = "full"
          /\ RLe(jitterConfig.max, jitterConfig.min)
          /\ maxAttempts >= 2
          /\ NumEv(i, "fail") >= 1 ) =>
            /\ inv[i].pc = "rejected"
            /\ NumEv(i, "onRetry") = 0
            /\ NumEv(i, "sleep") = 0
            /\ NumEv(i, "call") = 1
            /\ inv[i].outcome.kind = "Error"
            /\ inv[i].outcome # Coerce(EvsOf(i, "fail")[1].val, <<i, 1>>)

\* C27: in every retry of every wrapper invocation the jitter added to the base
\* wait is non-negative: the total passed to onRetry and slept is never less
\* than calculateDelay(delay, n, backoff), for every jitter variant.
C27_JitterNonNegative ==
    \A i \in Invs :
        /\ RLe(Num(0), inv[i].prevJitterDelay)
        /\ \A p \in 1..Len(Tr(i)) :
              Tr(i)[p].ev \in {"onRetry", "sleep"} =>
                  RLe(calculateDelay(delay, Tr(i)[p].n, backoff), Tr(i)[p].ms)

\* C28: with {type: 'fixed', amount} the total wait at a retry with base wait w
\* is w + max(0, w - amount), which lies in [w, 2w].
C28_FixedJitterInLoop ==
    \A i \in Invs : \A p \in 1..Len(Tr(i)) :
        (jitterConfig.type = "fixed" /\ Tr(i)[p].ev \in {"onRetry", "sleep"}) =>
            LET w == calculateDelay(delay, Tr(i)[p].n, backoff)
                d == RSub(w, jitterConfig.amount)
            IN  /\ Tr(i)[p].ms = RAdd(w, IF RLe(Num(0), d) THEN d ELSE Num(0))
                /\ RLe(w, Tr(i)[p].ms)
                /\ RLe(Tr(i)[p].ms, RAdd(w, w))

\* C29: with {type: 'decorrelated', maxDelay} and maxDelay >= the base wait w of
\* the first retry, the jitter of the first retry is w for every draw
\* (prevJitterDelay is 0), so the first total wait is exactly 2w.
C29_FirstDecorrelatedWait ==
    \A i \in Invs :
        LET w == calculateDelay(delay, 1, backoff)
        IN  ( /\ jitterConfig.type = "decorrelated"
              /\ RLe(w, jitterConfig.maxDelay)
              /\ NumEv(i, "onRetry") >= 1 ) =>
                /\ EvsOf(i, "onRetry")[1].ms = RAdd(w, w)
                /\ NumEv(i, "sleep") >= 1 => EvsOf(i, "sleep")[1].ms = RAdd(w, w)
                /\ inv[i].attempt = 1 => inv[i].prevJitterDelay = w

\* delay 100, {decorrelated, maxDelay 5000}: the first wait is 200 ms
C29_Witness ==
    \E i \in Invs :
        /\ jitterConfig = [type |-> "decorrelated", maxDelay |-> Num(5000)]
        /\ delay = Num(100)
        /\ inv[i].pc = "sleeping"
        /\ inv[i].attempt = 1
        /\ inv[i].timer = Num(200)
        /\ EvsOf(i, "onRetry")[1].ms = Num(200)

\* the error captured at invocation i's latest failed attempt, undefined before any
C30_OwnLastError(i) ==
    IF NumEv(i, "fail") = 0 THEN Undefined
    ELSE LET e == EvsOf(i, "fail")[NumEv(i, "fail")]
         IN  Coerce(e.val, <<i, e.n>>)

\* the jitter of invocation i's latest retry, 0 before any
C30_OwnPrevJitter(i) ==
    IF NumEv(i, "onRetry") = 0 THEN Num(0)
    ELSE LET e == EvsOf(i, "onRetry")[NumEv(i, "onRetry")]
         IN  RSub(e.ms, calculateDelay(delay, e.n, backoff))

\* the frames invocation j can move to in one step, whatever the others do
C30_NextFrames(j) ==
    CASE inv[j].pc = "idle" /\ j \in live ->
             UNION {LoopHead(EntryFrame(a), j) : a \in ArgLists}
      [] inv[j].pc = "awaitFn" ->
             UNION {OnSuccess(inv[j], v, j) : v \in Returned}
               \cup UNION {OnReject(inv[j], e, j) : e \in Thrown}
      [] inv[j].pc = "sleeping" ->
             LoopHead([inv[j] EXCEPT !.attempt = @ + 1,
                                     !.trace = Append(@, EvWake(inv[j].attempt))], j)
      [] OTHER -> {}

\* C30: concurrent invocations of one wrapper share no mutable state.  Under
\* every interleaving each invocation makes at most maxAttempts attempts,
\* reports its own indices 1, 2, ... to onRetry, holds the lastError and
\* prevJitterDelay of its own attempts only and rejects only with its own
\* lastError; while one invocation is in its timed wait, every other unsettled
\* invocation can take its next step.
C30_ConcurrentInvocationsIndependent ==
    \A i \in Invs :
        /\ NumEv(i, "call") <= (IF maxAttempts >= 0 THEN maxAttempts ELSE 0)
        /\ \A k \in 1..NumEv(i, "onRetry") : EvsOf(i, "onRetry")[k].n = k
        /\ inv[i].attempt <= maxAttempts + 1
        /\ Started(i) =>
              /\ inv[i].lastError = C30_OwnLastError(i)
              /\ inv[i].prevJitterDelay = C30_OwnPrevJitter(i)
        /\ \A k \in 1..NumEv(i, "onRetry") :
              EvsOf(i, "onRetry")[k].val = Coerce(EvsOf(i, "fail")[k].val, <<i, k>>)
        /\ inv[i].pc = "rejected" => inv[i].outcome = C30_OwnLastError(i)
        /\ \A j \in Invs \ {i} :
              (inv[i].pc = "sleeping" /\ inv[j].pc \in {"idle", "awaitFn", "sleeping"}) =>
                  \E g \in C30_NextFrames(j) : g # inv[j]

\* invocation 1 is in its first timed wait while invocation 2, started later,
\* has already failed three times and rejected with the error of its own third
\* attempt
C30_Witness ==
    /\ maxAttempts = 3
    /\ inv[1].pc = "sleeping"
    /\ inv[1].attempt = 1
    /\ inv[2].pc = "rejected"
    /\ NumEv(2, "call") = 3
    /\ inv[2].outcome = ErrorObj(<<2, 3>>, "42")
    /\ inv[1].lastError = ErrorObj(<<0, 1>>, "fail 1")

\* what a caller and the mocks observe of a frame: the calls of fn, the onRetry
\* calls, the waits, and how the wrapper settled
C15_Observed(f) ==
    [ calls   |-> SelectSeq(f.trace, LAMBDA e : e.ev = "call"),
      retries |-> SelectSeq(f.trace, LAMBDA e : e.ev = "onRetry"),
      waits   |-> SelectSeq(f.trace, LAMBDA e : e.ev = "sleep"),
      pc      |-> f.pc,
      outcome |-> f.outcome ]

C31_ValidConfig ==
    /\ RLe(Num(0), delay)
    /\ CASE jitterConfig.type = "full" ->
                RLe(Num(0), jitterConfig.min) /\ RLt(jitterConfig.min, jitterConfig.max)
         [] jitterConfig.type = "fixed" -> RLe(Num(0), jitterConfig.amount)
         [] jitterConfig.type = "random" ->
                RLe(Num(0), jitterConfig.fraction) /\ RLe(jitterConfig.fraction, Num(1))
         [] jitterConfig.type = "decorrelated" ->
                \A n \in 1..(maxAttempts - 1) :
                    RLe(calculateDelay(delay, n, backoff), jitterConfig.maxDelay)
         [] OTHER -> TRUE

\* Done with a result
C31_Done(i) ==
    /\ inv[i].pc = "resolved"
    /\ inv[i].outcome \in Returned
    /\ LastEv(i) = EvOk(inv[i].attempt, inv[i].outcome)

\* Failed with the last error after maxAttempts attempts
C31_Failed(i) ==
    /\ inv[i].pc = "rejected"
    /\ maxAttempts >= 1
    /\ NumEv(i, "call") = maxAttempts
    /\ NumEv(i, "fail") = maxAttempts
    /\ LastEv(i).ev = "fail"
    /\ inv[i].outcome = Coerce(LastEv(i).val, <<i, maxAttempts>>)

\* C31: with a valid configuration, an observer that does not throw and
\* maxAttempts >= 1, if every call of fn settles and every timed wait elapses,
\* every wrapper invocation that has started eventually is Done with a result
\* or Failed with the last error after maxAttempts attempts.
C31_Termination ==
    \A i \in Invs :
        (C31_ValidConfig /\ ~onRetryMayThrow /\ maxAttempts >= 1 /\ Started(i))
            ~> (C31_Done(i) \/ C31_Failed(i))

\* three attempts with random jitter, two waits that both elapsed, and the
\* third failure ends the invocation with the error of the third attempt
C31_Witness ==
    \E i \in Invs :
        /\ C31_ValidConfig /\ ~onRetryMayThrow
        /\ maxAttempts = 3
        /\ jitterConfig.type = "random"
        /\ NumEv(i, "wake") = 2
        /\ C31_Failed(i)
        /\ inv[i].outcome = ErrorObj(<<i, 3>>, "42")

\* C32: while the call of fn made at attempt n has not settled, the wrapper
\* invocation is suspended on it: it has not settled, the call of attempt n is
\* the last thing it did (no onRetry, no wait and no call for an index >= n
\* other than that call), and its next step, if any, is the settlement of that
\* call.  So if the call never settles nothing more ever occurs.
C32_HangingCallBlocks ==
    /\ [](\A i \in Invs :
            inv[i].pc = "awaitFn" =>
                /\ LastEv(i) = EvCall(inv[i].attempt, inv[i].args)
                /\ inv[i].outcome = Undefined
                /\ \A p \in 1..(Len(Tr(i)) - 1) : Tr(i)[p].n < inv[i].attempt)
    /\ [][\A i \in Invs :
            (inv[i].pc = "awaitFn" /\ inv'[i] # inv[i]) =>
                LET k == Len(Tr(i))
                    t == inv'[i].trace
                IN  /\ Len(t) > k
                    /\ SubSeq(t, 1, k) = Tr(i)
                    /\ t[k + 1].ev \in {"ok", "fail"}
                    /\ t[k + 1].n = inv[i].attempt]_vars

\* the third call of fn is pending after two failures and two waits, with a
\* fourth attempt left in the budget
C32_Witness ==
    \E i \in Invs :
        /\ inv[i].pc = "awaitFn"
        /\ inv[i].attempt = 3
        /\ maxAttempts = 4
        /\ NumEv(i, "wake") = 2
        /\ LastEv(i).ev = "call"

\* the jitter amount returned at invocation i's k-th retry: the total passed to
\* onRetry less the base wait of that retry
C34_Jitter(i, k) ==
    RSub(EvsOf(i, "onRetry")[k].ms, calculateDelay(delay, k, backoff))

\* the totals retry k can report when prevJitterDelay is prev
C34_Totals(k, prev) ==
    LET w == calculateDelay(delay, k, backoff)
    IN  {RAdd(w, applyJitter(w, jitterConfig, prev, r)) : r \in Draws}

\* C34: in every wrapper invocation prevJitterDelay is 0 when the jitter of the
\* first retry is computed; at every later retry it is the jitter amount the
\* preceding retry returned, which is neither that retry's total wait nor its
\* base wait; an invocation started after retries of another starts from 0.
C34_PrevJitterCarried ==
    \A i \in Invs :
        LET K == NumEv(i, "onRetry")
        IN  /\ (Started(i) /\ K = 0) => inv[i].prevJitterDelay = Num(0)
            /\ K >= 1 => EvsOf(i, "onRetry")[1].ms \in C34_Totals(1, Num(0))
            /\ \A k \in 2..K :
                  EvsOf(i, "onRetry")[k].ms \in C34_Totals(k, C34_Jitter(i, k - 1))
            /\ K >= 1 => inv[i].prevJitterDelay = C34_Jitter(i, K)

\* delay 100, decorrelated: invocation 1 made two retries with jitter 100 and
\* then 250 (total 450, base 200) and failed; invocation 2 is in its first wait
\* with jitter 100, computed from 0 and not from 250
C34_Witness ==
    /\ inv[1].pc = "rejected"
    /\ NumEv(1, "onRetry") = 2
    /\ EvsOf(1, "onRetry")[2].ms = Num(450)
    /\ inv[1].prevJitterDelay = Num(250)
    /\ inv[2].pc = "sleeping"
    /\ inv[2].attempt = 1
    /\ inv[2].timer = Num(200)
    /\ inv[2].prevJitterDelay = Num(100)

\* C35: no step of a wrapper invocation changes the configuration captured by
\* retry(fn, options) or the argument list of the invocation, and a step of one
\* invocation changes no other invocation's state; so invocations of the same
\* wrapper, successive or overlapping, run with the same configuration: those
\* that exhaust the budget made the same number of attempts and reported the
\* same first wait.
C35_ConfigUnchanged ==
    /\ [][ /\ options' = options
           /\ \A i \in Invs :
                 /\ Started(i) => inv'[i].args = inv[i].args
                 /\ inv'[i] # inv[i] => \A j \in Invs \ {i} : inv'[j] = inv[j] ]_vars
    /\ [](\A i \in Invs : \A j \in Invs :
            (inv[i].pc = "rejected" /\ inv[j].pc = "rejected") =>
                /\ NumEv(i, "call") = NumEv(j, "call")
                /\ NumEv(i, "onRetry") = NumEv(j, "onRetry")
                /\ NumEv(i, "onRetry") >= 1 =>
                      EvsOf(i, "onRetry")[1].ms = EvsOf(j, "onRetry")[1].ms)

\* two invocations of a wrapper made with maxAttempts 2 have both failed, each
\* after two attempts and one wait of 200 ms
C35_Witness ==
    /\ options.maxAttempts = 2
    /\ \A i \in Invs :
          /\ inv[i].pc = "rejected"
          /\ NumEv(i, "call") = 2
          /\ EvsOf(i, "sleep")[1].ms = Num(200)

\* the events of kind among the first p events of invocation i
C36_Count(i, p, kind) ==
    Len(SelectSeq(SubSeq(Tr(i), 1, p), LAMBDA e : e.ev = kind))

\* C36: in one wrapper invocation the indices passed to onRetry are 1, 2, ..., k
\* in this order, without gap or repeat, with k <= maxAttempts - 1 (k = 0 when
\* maxAttempts < 1); at every moment the onRetry calls are at most as many as
\* the failed attempts and the waits started at most as many as the onRetry
\* calls.
C36_OnRetryIndices ==
    \A i \in Invs :
        LET K == NumEv(i, "onRetry")
        IN  /\ \A k \in 1..K : EvsOf(i, "onRetry")[k].n = k
            /\ K <= (IF maxAttempts >= 1 THEN maxAttempts - 1 ELSE 0)
            /\ \A p \in 1..Len(Tr(i)) :
                  /\ Tr(i)[p].ev = "onRetry" =>
                        C36_Count(i, p, "onRetry") <= C36_Count(i, p, "fail")
                  /\ Tr(i)[p].ev = "sleep" =>
                        C36_Count(i, p, "sleep") <= C36_Count(i, p, "onRetry")
            /\ inv[i].pc = "sleeping" => NumEv(i, "sleep") = K

\* maxAttempts 4: onRetry has been called with 1, 2 and 3, the third call by an
\* observer that threw, so three failures, three onRetry calls and two waits
C36_Witness ==
    \E i \in Invs :
        /\ maxAttempts = 4
        /\ NumEv(i, "fail") = 3
        /\ NumEv(i, "onRetry") = 3
        /\ NumEv(i, "sleep") = 2
        /\ EvsOf(i, "onRetry")[1].n = 1
        /\ EvsOf(i, "onRetry")[2].n = 2
        /\ EvsOf(i, "onRetry")[3].n = 3

\* the positions of invocation i's trace that hold an event of kind
C37_At(i, kind) == {p \in 1..Len(Tr(i)) : Tr(i)[p].ev = kind}

\* C37: in one wrapper invocation no timed wait starts before the first call of
\* fn, none after the failure of attempt maxAttempts and none after a success,
\* and between two consecutive calls of fn exactly one timed wait starts and
\* elapses.
C37_WaitsBetweenAttempts ==
    \A i \in Invs :
        LET calls  == C37_At(i, "call")
            sleeps == C37_At(i, "sleep")
            wakes  == C37_At(i, "wake")
        IN  /\ \A p \in sleeps : \E q \in calls : q < p
            /\ \A p \in C37_At(i, "fail") :
                  Tr(i)[p].n >= maxAttempts => \A q \in sleeps : q < p
            /\ \A p \in C37_At(i, "ok") : \A q \in sleeps : q < p
            /\ \A p \in calls : \A q \in calls :
                  (p < q /\ \A m \in calls : ~(p < m /\ m < q)) =>
                      /\ Cardinality({m \in sleeps : p < m /\ m < q}) = 1
                      /\ Cardinality({m \in wakes : p < m /\ m < q}) = 1
            /\ Cardinality(sleeps) <= Cardinality(calls)
            /\ inv[i].pc \in {"resolved", "rejected"} =>
                  Cardinality(wakes) = Cardinality(sleeps)

\* linear backoff, maxAttempts 3: call, wait, call, wait, call, and the third
\* failure ends the invocation with no wait after it
C37_Witness ==
    \E i \in Invs :
        /\ maxAttempts = 3
        /\ backoff = "linear"
        /\ inv[i].pc = "rejected"
        /\ NumEv(i, "call") = 3
        /\ NumEv(i, "sleep") = 2
        /\ NumEv(i, "wake") = 2
        /\ LastEv(i).ev = "fail"

\* C38: with maxAttempts <= 0 the wrapper, once called, invokes fn zero times,
\* never calls onRetry, never waits, and rejects with undefined, which is not an
\* Error.
C38_NoAttemptBudget ==
    \A i \in Invs :
        (maxAttempts <= 0 /\ Started(i)) =>
            /\ inv[i].pc = "rejected"
            /\ Tr(i) = <<>>
            /\ NumEv(i, "call") = 0
            /\ NumEv(i, "onRetry") = 0
            /\ NumEv(i, "sleep") = 0
            /\ inv[i].outcome = Undefined
            /\ inv[i].outcome.kind # "Error"

\* maxAttempts -1 with an observer given: the call of the wrapper has rejected
\* and nothing was invoked
C38_Witness ==
    \E i \in Invs :
        /\ maxAttempts = -1
        /\ "onRetry" \in DOMAIN options
        /\ inv[i].pc = "rejected"
        /\ inv[i].args \in ArgLists
        /\ Tr(i) = <<>>
        /\ inv[i].outcome.kind = "undefined"

\* the first n events of a trace
C39_Prefix(t, n) == SubSeq(t, 1, n)

\* C39: with no jitterConfig and fn failing only with Error objects, the wrapper
\* of retry.ts (invocation 1) and the legacy wrapper of part_000 (invocation 2)
\* produce the same trace for the same behaviour of fn: at every moment the
\* shorter trace is the beginning of the longer one, at equal length they are
\* at the same point with the same timer, and once both have settled the
\* calls of fn, the onRetry calls with their arguments, the waits and the
\* result or error are the same.
C39_SameAsLegacy ==
    ( /\ "jitterConfig" \notin DOMAIN options
      /\ \A k \in DOMAIN pin : pin[k].res = "fail" => pin[k].val.kind = "Error" ) =>
        LET t1 == inv[1].trace
            t2 == inv[2].trace
            n  == IF Len(t1) <= Len(t2) THEN Len(t1) ELSE Len(t2)
        IN  /\ C39_Prefix(t1, n) = C39_Prefix(t2, n)
            /\ (Len(t1) = Len(t2) /\ Started(1) /\ Started(2)) =>
                  /\ inv[1].pc = inv[2].pc
                  /\ inv[1].timer = inv[2].timer
                  /\ inv[1].outcome = inv[2].outcome
                  /\ inv[1].lastError = inv[2].lastError
            /\ (inv[1].pc \in {"resolved", "rejected"}
                  /\ inv[2].pc \in {"resolved", "rejected"}) =>
                  /\ t1 = t2
                  /\ inv[1].pc = inv[2].pc
                  /\ inv[1].outcome = inv[2].outcome

\* maxAttempts 3, delay 100, linear: fn failed three times with the same Error
\* and both wrappers reported waits of 100 and 200 and rejected with that Error
C39_Witness ==
    /\ DOMAIN options = {"maxAttempts", "delay", "backoff"}
    /\ options.maxAttempts = 3
    /\ options.backoff = "linear"
    /\ inv[1].pc = "rejected"
    /\ inv[2].pc = "rejected"
    /\ NumEv(1, "call") = 3
    /\ NumEv(2, "call") = 3
    /\ EvsOf(1, "onRetry")[2].ms = Num(200)
    /\ EvsOf(2, "onRetry")[2].ms = Num(200)
    /\ inv[2].outcome = ErrorObj(<<0, 1>>, "fail 1")

---------------------------------------------------------------------------
(* Properties of the backoff calculator *)

\* C10: calculateDelay(b, n, 'exponential') = b * 2^(n-1) for every base delay
\* b >= 0 and attempt n >= 1; attempt 1 yields b unchanged.
C10_ExponentialDelay ==
    (pin.fn = "calculateDelay" /\ pin.backoff = "exponential" /\ pret # NoRet) =>
        /\ pret[1] = Doubled(pin.baseDelay, pin.attempt - 1)
        /\ pin.attempt = 1 => pret[1] = pin.baseDelay

C10_Witness ==
    /\ pin.fn = "calculateDelay"
    /\ pin.backoff = "exponential"
    /\ pin.baseDelay = Num(3)
    /\ pin.attempt = 5
    /\ pret = <<Num(48)>>

\* b added up n times
RECURSIVE C11_Times(_, _)
C11_Times(b, n) == IF n = 0 THEN Num(0) ELSE RAdd(C11_Times(b, n - 1), b)

\* C11: calculateDelay(b, n, 'linear') is b*n (b added up n times) and
\* calculateDelay(b, n, 'fixed') is b, for every base delay b >= 0 and every
\* attempt n >= 1.

C11_LinearAndFixedDelay ==
    (pin.fn = "calculateDelay" /\ pret # NoRet) =>
        /\ pin.backoff = "linear" => pret[1] = C11_Times(pin.baseDelay, pin.attempt)
        /\ pin.backoff = "fixed" => pret[1] = pin.baseDelay

C11_Witness ==
    /\ pin.fn = "calculateDelay"
    /\ pin.backoff = "linear"
    /\ pin.baseDelay = <<5, 2>>
    /\ pin.attempt = 3
    /\ pret = << <<15, 2>> >>

BackoffStrategy == {"exponential", "linear", "fixed"}

\* the jitter returned at the retry before attempt n's when every base wait is
\* the configured delay (0 before the first)
C12_PrevJitter(i, n) ==
    IF n = 1 THEN Num(0) ELSE RSub(C8_OnRetryOf(i, n - 1).ms, delay)

\* C12: for a backoff value other than 'exponential', 'linear' and 'fixed',
\* calculateDelay returns a value, the base delay, which is what 'fixed' returns,
\* at every attempt; a retry loop configured with such a value waits the
\* configured delay plus the jitter computed on it at every retry.
C12_UnknownBackoffIsFixed ==
    /\ (pin.fn = "calculateDelay" /\ pin.backoff \notin BackoffStrategy /\ pret # NoRet) =>
          /\ Len(pret) = 1
          /\ pret[1] = pin.baseDelay
          /\ pret[1] = calculateDelay(pin.baseDelay, pin.attempt, "fixed")
    /\ \A i \in Invs : \A p \in 1..Len(Tr(i)) :
          (backoff \notin BackoffStrategy /\ Tr(i)[p].ev = "sleep") =>
              /\ p > 1
              /\ Tr(i)[p - 1].ev = "onRetry"
              /\ Tr(i)[p - 1].ms = Tr(i)[p].ms
              /\ \E r \in Draws :
                    Tr(i)[p].ms =
                        RAdd(delay, applyJitter(delay, jitterConfig,
                                                C12_PrevJitter(i, Tr(i)[p].n), r))

\* delay 100, backoff 'unknown', no jitter: both waits of a three-attempt run
\* are 100 ms
C12_Witness ==
    \E i \in Invs :
        /\ backoff = "unknown"
        /\ delay = Num(100)
        /\ jitterConfig.type = "undefined"
        /\ NumEv(i, "sleep") = 2
        /\ EvsOf(i, "sleep")[1].ms = Num(100)
        /\ EvsOf(i, "sleep")[2].ms = Num(100)

\* calculateDelay(7/2, 4, 'quadratic') = 7/2
C12_WitnessDirect ==
    /\ pin.fn = "calculateDelay"
    /\ pin.backoff = "quadratic"
    /\ pin.baseDelay = <<7, 2>>
    /\ pin.attempt = 4
    /\ pret = << <<7, 2>> >>

---------------------------------------------------------------------------
(* Properties of the jitter engine *)

\* C13: with jitterConfig absent or {type: 'none'} applyJitter returns 0 for
\* every base delay and prevDelay, so the wait armed at every retry is exactly
\* calculateDelay(delay, n, backoff).
C13_NoJitter ==
    /\ (pin.fn = "applyJitter" /\ pin.jitter.type \in {"undefined", "none"}
           /\ pret # NoRet) => pret = <<Num(0)>>
    /\ \A i \in Invs :
          jitterConfig.type \in {"undefined", "none"} =>
              /\ inv[i].prevJitterDelay = Num(0)
              /\ \A p \in 1..Len(Tr(i)) :
                    Tr(i)[p].ev \in {"onRetry", "sleep"} =>
                        Tr(i)[p].ms = calculateDelay(delay, Tr(i)[p].n, backoff)

\* delay 100, linear backoff, {type: 'none'}: waits of 100 and 200 ms
C13_Witness ==
    \E i \in Invs :
        /\ jitterConfig.type = "none"
        /\ backoff = "linear"
        /\ NumEv(i, "sleep") = 2
        /\ EvsOf(i, "sleep")[1].ms = Num(100)
        /\ EvsOf(i, "sleep")[2].ms = Num(200)

\* applyJitter(1000, undefined, 200) = 0
C13_WitnessDirect ==
    /\ pin.fn = "applyJitter"
    /\ pin.jitter = NoJitterConfig
    /\ pin.baseDelay = Num(1000)
    /\ pin.prevDelay = Num(200)
    /\ pret = <<Num(0)>>

C18_Negative(x) == ~ RLe(Num(0), x)

\* some numeric input of the direct call c is negative
C18_NegativeInput(c) ==
    \/ C18_Negative(c.baseDelay)
    \/ C18_Negative(c.prevDelay)
    \/ c.jitter.type = "full" /\ (C18_Negative(c.jitter.min) \/ C18_Negative(c.jitter.max))
    \/ c.jitter.type = "fixed" /\ C18_Negative(c.jitter.amount)
    \/ c.jitter.type = "decorrelated" /\ C18_Negative(c.jitter.maxDelay)

\* C18: applyJitter with a variant other than none returns no delay (it throws
\* a validation error) whenever one of baseDelay, prevDelay, full.min, full.max,
\* fixed.amount or decorrelated.maxDelay is negative.
C18_NumericInputsValidated ==
    ( /\ pin.fn = "applyJitter"
      /\ pin.jitter.type \notin {"undefined", "none"}
      /\ C18_NegativeInput(pin) ) => pret = NoRet

\* C19: applyJitter with {type: 'full', min, max} returns no delay (it throws a
\* validation error) whenever min >= max, min = max included; it computes a
\* delay only when min < max.
C19_FullRangeValidated ==
    ( /\ pin.fn = "applyJitter"
      /\ pin.jitter.type = "full"
      /\ pret # NoRet ) => ~ RLe(pin.jitter.max, pin.jitter.min)

\* C20: applyJitter with {type: 'random', fraction} returns no delay (it throws
\* a validation error) whenever fraction < 0 or fraction > 1, and does return
\* one for fraction = 0 and fraction = 1.
C20_RandomFractionValidated ==
    (pin.fn = "applyJitter" /\ pin.jitter.type = "random") =>
        IF RLe(Num(0), pin.jitter.fraction) /\ RLe(pin.jitter.fraction, Num(1))
        THEN (pin.jitter.fraction \in {Num(0), Num(1)} /\ ~ C18_NegativeInput(pin)) =>
                 (pret # NoRet \/ ENABLED CallApplyJitter)
        ELSE pret = NoRet

\* C21: applyJitter with {type: 'decorrelated', maxDelay} returns no delay (it
\* throws a validation error) whenever maxDelay is less than the base delay it
\* is given, and does return one when maxDelay equals that base delay.
C21_DecorrelatedMaxValidated ==
    (pin.fn = "applyJitter" /\ pin.jitter.type = "decorrelated") =>
        IF ~ RLe(pin.baseDelay, pin.jitter.maxDelay)
        THEN pret = NoRet
        ELSE (pin.jitter.maxDelay = pin.baseDelay /\ ~ C18_NegativeInput(pin)) =>
                 (pret # NoRet \/ ENABLED CallApplyJitter)

\* C22: for every base delay b >= 0 and every draw r in [0, 1],
\* calculateEqualJitter(b) lies in [b/2, b]; it is b/2 at r = 0 and b at r = 1.
C22_EqualJitterRange ==
    (pin.fn = "calculateEqualJitter" /\ RLe(Num(0), pin.baseDelayMs) /\ pret # NoRet) =>
        LET x == pret[1]
            b == pin.baseDelayMs
        IN  /\ RLe(b, RAdd(x, x))
            /\ RLe(x, b)
            /\ pin.r = Num(0) => RAdd(x, x) = b
            /\ pin.r = Num(1) => x = b

\* calculateEqualJitter(5) is 5/2 at draw 0
C22_Witness ==
    /\ pin.fn = "calculateEqualJitter"
    /\ pin.baseDelayMs = Num(5)
    /\ pin.r = Num(0)
    /\ pret = << <<5, 2>> >>

\* calculateEqualJitter(5) is 5 at draw 1
C22_WitnessDrawOne ==
    /\ pin.fn = "calculateEqualJitter"
    /\ pin.baseDelayMs = Num(5)
    /\ pin.r = Num(1)
    /\ pret = <<Num(5)>>

\* C23: for every min < max and every draw r in [0, 1), calculateFullJitter(min,
\* max) lies in [min, max): min inclusive, max exclusive.
C23_FullJitterRange ==
    ( /\ pin.fn = "calculateFullJitter"
      /\ RLt(pin.minDelayMs, pin.maxDelayMs)
      /\ RLe(Num(0), pin.r) /\ RLt(pin.r, Num(1))
      /\ pret # NoRet ) =>
        /\ RLe(pin.minDelayMs, pret[1])
        /\ RLt(pret[1], pin.maxDelayMs)

\* C24 as stated: calculateFixedJitter(b, amount) is max(0, b - amount) for
\* every b and amount: never negative, 0 when amount >= b, and never above b
\* when amount >= 0.
C24_FixedJitterAsStated ==
    (pin.fn = "calculateFixedJitter" /\ pret # NoRet) =>
        LET x == pret[1]
            b == pin.maxDelayMs
            a == pin.jitterAmount
        IN  /\ x = (IF RLe(b, a) THEN Num(0) ELSE RSub(b, a))
            /\ RLe(Num(0), x)
            /\ RLe(b, a) => x = Num(0)
            /\ RLe(Num(0), a) => RLe(x, b)

\* C24: calculateFixedJitter(b, amount) is max(0, b - amount) for every b and
\* amount: never negative even when amount > b, 0 when amount >= b, and never
\* above b when amount >= 0 and b >= 0.
C24_FixedJitter ==
    (pin.fn = "calculateFixedJitter" /\ pret # NoRet) =>
        LET x == pret[1]
            b == pin.maxDelayMs
            a == pin.jitterAmount
        IN  /\ x = (IF RLe(b, a) THEN Num(0) ELSE RSub(b, a))
            /\ RLe(Num(0), x)
            /\ RLe(b, a) => x = Num(0)
            /\ (RLe(Num(0), a) /\ RLe(Num(0), b)) => RLe(x, b)

\* calculateFixedJitter(3, 5) = 0
C24_Witness ==
    /\ pin.fn = "calculateFixedJitter"
    /\ pin.maxDelayMs = Num(3)
    /\ pin.jitterAmount = Num(5)
    /\ pret = <<Num(0)>>

\* C25: for every base delay b >= 0, fraction f and draw r in [0, 1],
\* calculateRandomJitter(b, f) is max(0, b*(1 + (2r - 1)*f)): it lies in
\* [b*(1 - f), b*(1 + f)] when f is in [0, 1], and is 0, never negative, when
\* the unclamped value is negative.
C25_RandomJitter ==
    (pin.fn = "calculateRandomJitter" /\ RLe(Num(0), pin.baseDelayMs) /\ pret # NoRet) =>
        LET x   == pret[1]
            b   == pin.baseDelayMs
            f   == pin.jitterFraction
            raw == RAdd(b, RMul(RMul(b, f), RSub(RAdd(pin.r, pin.r), Num(1))))
        IN  /\ x = (IF RLe(Num(0), raw) THEN raw ELSE Num(0))
            /\ RLe(Num(0), x)
            /\ (RLe(Num(0), f) /\ RLe(f, Num(1))) =>
                  /\ RLe(RSub(b, RMul(b, f)), x)
                  /\ RLe(x, RAdd(b, RMul(b, f)))
            /\ RLt(raw, Num(0)) => x = Num(0)

\* calculateRandomJitter(4, 2) at draw 0: 4 * (1 - 2) is negative, the result 0
C25_Witness ==
    /\ pin.fn = "calculateRandomJitter"
    /\ pin.baseDelayMs = Num(4)
    /\ pin.jitterFraction = Num(2)
    /\ pin.r = Num(0)
    /\ pret = <<Num(0)>>

\* calculateRandomJitter(4, 1/2) at draw 1 is 6
C25_WitnessInRange ==
    /\ pin.fn = "calculateRandomJitter"
    /\ pin.baseDelayMs = Num(4)
    /\ pin.jitterFraction = <<1, 2>>
    /\ pin.r = Num(1)
    /\ pret = <<Num(6)>>

\* the value of a decorrelated draw before the cap: b + r*(max(b, 3*prev) - b)
C26_Unclamped(c) ==
    LET upper == IF RLe(RMul(Num(3), c.prevDelayMs), c.baseDelayMs)
                 THEN c.baseDelayMs ELSE RMul(Num(3), c.prevDelayMs)
    IN  RAdd(c.baseDelayMs, RMul(c.r, RSub(upper, c.baseDelayMs)))

C26_Upper(c) ==
    LET upper == IF RLe(RMul(Num(3), c.prevDelayMs), c.baseDelayMs)
                 THEN c.baseDelayMs ELSE RMul(Num(3), c.prevDelayMs)
    IN  IF RLe(c.maxDelayMs, upper) THEN c.maxDelayMs ELSE upper

C26_WitnessUncapped ==
    /\ pin.fn = "calculateDecorrelatedJitter"
    /\ pin.baseDelayMs = Num(1)
    /\ pin.maxDelayMs = Num(10)
    /\ pin.prevDelayMs = Num(2)
    /\ pin.r = Num(1)
    /\ pret = <<Num(6)>>
---------------------------------------------------------------------------
(* Properties of repeated calls *)

\* what the call c returns from its arguments and its draw alone
C33_Alone(c) ==
    CASE c.fn = "calculateDelay" -> calculateDelay(c.baseDelay, c.attempt, c.backoff)
      [] c.fn = "calculateEqualJitter" -> calculateEqualJitter(c.baseDelayMs, c.r)
      [] c.fn = "calculateFullJitter" ->
             calculateFullJitter(c.minDelayMs, c.maxDelayMs, c.r)
      [] c.fn = "calculateFixedJitter" -> calculateFixedJitter(c.maxDelayMs, c.jitterAmount)
      [] c.fn = "calculateRandomJitter" ->
             calculateRandomJitter(c.baseDelayMs, c.jitterFraction, c.r)
      [] c.fn = "calculateDecorrelatedJitter" ->
             calculateDecorrelatedJitter(c.baseDelayMs, c.maxDelayMs, c.prevDelayMs, c.r)

====
